---- MODULE Spec2Model ----
(***************************************************************************)
(* Model of the file-triage backend (src/src/lib.rs), its reversible       *)
(* commands (src/src/control_flow.rs) and its storage adapter              *)
(* (src/src/filesystem.rs).                                                *)
(*                                                                         *)
(* A path is the sequence of its components, a string is the sequence of   *)
(* its tokens (" " is whitespace, "/" the separator).  The storage is the  *)
(* set of paths at which a regular file exists; the directory tree is      *)
(* fixed.  usize arithmetic is modular; a build with overflow checks       *)
(* panics where a build without them wraps.                                *)
(***************************************************************************)
EXTENDS Integers, Sequences, FiniteSets, TLC

\* ------------------------------------------------------------------ bounds
\* most commands held by the two stacks together
MaxCmds == 2
\* most entries of the folder list
MaxFolders == 2
\* width of usize in the model (the arithmetic is the same at any width
\* that can hold the file count)
WordBits == 3

UsizeModulus == 2 ^ WordBits

\* ------------------------------------------------------- the storage world
DirIn == <<"in">>
DirD1 == <<"in", "d1">>

\* the directories that exist (none is created or removed by the program)
Directories == {DirIn, DirD1}

\* the regular files that exist when the program starts
InitialFiles == {<<"in", "a">>, <<"in", "b">>, <<"in", "d1", "b">>}

\* strings a caller passes as a directory
DirStrings == { <<" ", "in", " ">>, <<"nx">> }

\* folders a caller passes to move_file
MoveTargets == {DirIn, DirD1}

\* ------------------------------------------------------- strings and paths
Front(s) == SubSeq(s, 1, Len(s) - 1)

Last(s) == s[Len(s)]

RECURSIVE TrimStart(_)
TrimStart(s) ==
    IF s # <<>> /\ Head(s) = " " THEN TrimStart(Tail(s)) ELSE s

RECURSIVE TrimEnd(_)
TrimEnd(s) ==
    IF s # <<>> /\ Last(s) = " " THEN TrimEnd(Front(s)) ELSE s

\* str::trim
Trim(s) == TrimEnd(TrimStart(s))

\* Path::new / PathBuf::from: the components between separators
RECURSIVE PathFrom(_)
PathFrom(s) ==
    IF s = <<>> THEN <<>>
    ELSE IF Head(s) = "/" THEN PathFrom(Tail(s))
    ELSE <<Head(s)>> \o PathFrom(Tail(s))

\* Path::file_name: the last component, none for an empty path or ".."
HasFileName(p) == p # <<>> /\ Last(p) # ".."

FileName(p) == Last(p)

Parent(p) == Front(p)

\* the order of path components (byte order of the names used here)
ComponentRank(c) ==
    CASE c = " "  -> 0
      [] c = ".." -> 1
      [] c = "a"  -> 2
      [] c = "b"  -> 3
      [] c = "d1" -> 4
      [] c = "in" -> 5
      [] OTHER    -> 6

\* Ord for PathBuf: component-wise lexicographic
RECURSIVE PathLess(_, _)
PathLess(p, q) ==
    IF q = <<>> THEN FALSE
    ELSE IF p = <<>> THEN TRUE
    ELSE IF Head(p) = Head(q) THEN PathLess(Tail(p), Tail(q))
    ELSE ComponentRank(Head(p)) < ComponentRank(Head(q))

\* Vec::sort of a set of distinct paths
RECURSIVE SortPaths(_)
SortPaths(S) ==
    IF S = {} THEN <<>>
    ELSE LET least == CHOOSE p \in S : \A q \in S \ {p} : PathLess(p, q)
         IN  <<least>> \o SortPaths(S \ {least})

\* ------------------------------------------------------------ Filesystem
\* Every storage operation maps the storage (fsys) to a result and a new
\* storage; fault is an I/O error of the operating system (permissions,
\* device), which leaves the storage alone.

Children(S, directory) ==
    {p \in S : Len(p) = Len(directory) + 1 /\ Parent(p) = directory}

fs_load_filesystem_elements(fsys, directory, fault) ==
    IF fault THEN [res |-> "PermissionDenied", folders |-> <<>>, files |-> <<>>]
    ELSE IF directory \notin Directories
    THEN [res |-> "NotFound", folders |-> <<>>, files |-> <<>>]
    ELSE [res |-> "Ok",
          folders |-> SortPaths(Children(Directories, directory)),
          files |-> SortPaths(Children(fsys, directory))]

fs_delete_file(fsys, file, fault) ==
    IF fault THEN [res |-> "PermissionDenied", fs |-> fsys]
    ELSE IF file \notin fsys THEN [res |-> "NotFound", fs |-> fsys]
    ELSE [res |-> "Ok", fs |-> fsys \ {file}]

\* move_file without the look at the destination: rename replaces a file
fs_move_file_overwrites(fsys, from_file, to_file, fault) ==
    IF fault THEN [res |-> "PermissionDenied", fs |-> fsys]
    ELSE IF from_file \notin fsys \/ Parent(to_file) \notin Directories
    THEN [res |-> "NotFound", fs |-> fsys]
    ELSE [res |-> "Ok", fs |-> (fsys \ {from_file}) \cup {to_file}]

fs_move_file(fsys, from_file, to_file, fault) ==
    IF to_file \in fsys \/ to_file \in Directories
    THEN [res |-> "AlreadyExists", fs |-> fsys]
    ELSE IF fault THEN [res |-> "PermissionDenied", fs |-> fsys]
    ELSE IF from_file \notin fsys \/ Parent(to_file) \notin Directories
    THEN [res |-> "NotFound", fs |-> fsys]
    ELSE [res |-> "Ok", fs |-> (fsys \ {from_file}) \cup {to_file}]

fs_add_folder(fsys, folder) ==
    LET new_folder == PathFrom(folder)
    IN  IF new_folder \notin Directories /\ new_folder \notin fsys
        THEN [res |-> "NotFound", folder |-> new_folder]
        ELSE [res |-> "Ok", folder |-> new_folder]

\* ---------------------------------------------------------- control_flow
Skip_new == [kind |-> "Skip"]

Move_new(current_location, previous_location) ==
    [kind |-> "Move",
     current_file_location |-> current_location,
     previous_file_location |-> previous_location]

\* undo renaming in the direction the field names suggest
Controllable_undo_by_name(item, fsys, fault) ==
    IF item.kind = "Move"
    THEN fs_move_file(fsys, item.current_file_location,
                      item.previous_file_location, fault)
    ELSE [res |-> "Ok", fs |-> fsys]

\* Controllable::undo
Controllable_undo(item, fsys, fault) ==
    IF item.kind = "Move"
    THEN fs_move_file(fsys, item.previous_file_location,
                      item.current_file_location, fault)
    ELSE [res |-> "Ok", fs |-> fsys]

\* Controllable::redo
Controllable_redo(item, fsys, fault) ==
    IF item.kind = "Move"
    THEN fs_move_file(fsys, item.current_file_location,
                      item.previous_file_location, fault)
    ELSE [res |-> "Ok", fs |-> fsys]

\* ----------------------------------------------------------------- state
VARIABLES
    files,               \* Backend::files
    folders,             \* Backend::folders
    pwd,                 \* Backend::pwd
    current_file_index,  \* Backend::current_file_index
    undo_stack,          \* Backend::undo_stack
    redo_stack,          \* Backend::redo_stack
    end_of_files,        \* Backend::end_of_files
    fs,                  \* the regular files of the storage
    overflow_checks,     \* the build: TRUE panics on overflow, FALSE wraps
    panicked,            \* the thread has panicked
    last,                \* history: the last call, its result, the argument
                         \* of move_file and add_folder
    run,                 \* history: calls since a load on a new engine
    eof_cmds,            \* history: undo_stack positions whose advance hit the end
    mark,                \* history: a move_file, then undo, then redo
    undone,              \* history: the undo stack before the last call, when
                         \* that call was an undo that popped a command
    reload               \* history: a load, then a skip or move_file, then undo

engine == <<files, folders, pwd, current_file_index, undo_stack, redo_stack,
            end_of_files>>

vars == <<files, folders, pwd, current_file_index, undo_stack, redo_stack,
          end_of_files, fs, overflow_checks, panicked, last, run, eof_cmds,
          mark, undone, reload>>

\* the Backend as one value
Self ==
    [files |-> files, folders |-> folders, pwd |-> pwd,
     current_file_index |-> current_file_index,
     undo_stack |-> undo_stack, redo_stack |-> redo_stack,
     end_of_files |-> end_of_files]

\* ---------------------------------------------------------------- Backend
\* Each method maps the Backend (self) and the storage to the returned
\* result, the Backend and the storage after the call.

Backend_new ==
    [files |-> <<>>, folders |-> <<>>, pwd |-> <<>>,
     current_file_index |-> 0,
     undo_stack |-> <<>>, redo_stack |-> <<>>,
     end_of_files |-> FALSE]

file_count(self) == Len(self.files)

\* get_current_file falling back to the last entry when the index is past
\* the list
get_current_file_or_last(self) ==
    IF self.files = <<>> THEN <<>>
    ELSE IF self.current_file_index >= file_count(self)
    THEN <<self.files[file_count(self)]>>
    ELSE <<self.files[self.current_file_index + 1]>>

\* Option<&PathBuf>: none is the empty sequence, some(p) is <<p>>
get_current_file(self) ==
    IF self.current_file_index >= file_count(self) THEN <<>>
    ELSE <<self.files[self.current_file_index + 1]>>

\* load_folders_and_files forgetting the redo stack
load_folders_and_files_keeps_redo(self, fsys, directory, fault) ==
    LET clean_directory == Trim(directory)
        listing == fs_load_filesystem_elements(fsys, PathFrom(clean_directory),
                                               fault)
    IN  IF listing.res # "Ok"
        THEN [res |-> listing.res, self |-> self, fs |-> fsys]
        ELSE [res |-> "Ok",
              self |-> [self EXCEPT !.folders = listing.folders,
                                    !.files = listing.files,
                                    !.pwd = directory,
                                    !.current_file_index = 0,
                                    !.undo_stack = <<>>],
              fs |-> fsys]

load_folders_and_files(self, fsys, directory, fault) ==
    LET clean_directory == Trim(directory)
        listing == fs_load_filesystem_elements(fsys, PathFrom(clean_directory),
                                               fault)
    IN  IF listing.res # "Ok"
        THEN [res |-> listing.res, self |-> self, fs |-> fsys]
        ELSE [res |-> "Ok",
              self |-> [self EXCEPT !.folders = listing.folders,
                                    !.files = listing.files,
                                    !.pwd = directory,
                                    !.current_file_index = 0,
                                    !.undo_stack = <<>>,
                                    !.redo_stack = <<>>],
              fs |-> fsys]

\* load_external_folders taking the files of the listing as well
load_external_folders_takes_files(self, fsys, directory, fault) ==
    LET listing == fs_load_filesystem_elements(fsys, PathFrom(Trim(directory)),
                                               fault)
    IN  IF listing.res # "Ok"
        THEN [res |-> listing.res, self |-> self, fs |-> fsys]
        ELSE [res |-> "Ok",
              self |-> [self EXCEPT !.folders = listing.folders,
                                    !.files = listing.files],
              fs |-> fsys]

load_external_folders(self, fsys, directory, fault) ==
    LET listing == fs_load_filesystem_elements(fsys, PathFrom(Trim(directory)),
                                               fault)
    IN  IF listing.res # "Ok"
        THEN [res |-> listing.res, self |-> self, fs |-> fsys]
        ELSE [res |-> "Ok",
              self |-> [self EXCEPT !.folders = listing.folders],
              fs |-> fsys]

\* add_folder resolving the string as given, whitespace included
add_folder_untrimmed(self, fsys, directory) ==
    LET added == fs_add_folder(fsys, directory)
    IN  IF added.res # "Ok"
        THEN [res |-> added.res, self |-> self, fs |-> fsys]
        ELSE [res |-> "Ok",
              self |-> [self EXCEPT !.folders = Append(@, added.folder)],
              fs |-> fsys]

add_folder(self, fsys, directory) ==
    LET added == fs_add_folder(fsys, Trim(directory))
    IN  IF added.res # "Ok"
        THEN [res |-> added.res, self |-> self, fs |-> fsys]
        ELSE [res |-> "Ok",
              self |-> [self EXCEPT !.folders = Append(@, added.folder)],
              fs |-> fsys]

clear_folders(self, fsys) ==
    [res |-> "Ok", self |-> [self EXCEPT !.folders = <<>>], fs |-> fsys]

build_destination(to_folder, from_file) ==
    IF ~HasFileName(from_file)
    THEN [res |-> "InvalidData", path |-> <<>>]
    ELSE [res |-> "Ok", path |-> Append(to_folder, FileName(from_file))]

\* is_end_of_files comparing the index itself, not the index after it
is_end_of_files_off_by_one(self, file_index, file_count_, checks) ==
    IF file_index >= file_count_
    THEN [res |-> "UnexpectedEof",
          self |-> [self EXCEPT !.end_of_files = TRUE]]
    ELSE [res |-> "Ok", self |-> self]

is_end_of_files(self, file_index, file_count_, checks) ==
    IF file_index + 1 >= UsizeModulus /\ checks
    THEN [res |-> "panic", self |-> self]
    ELSE IF (file_index + 1) % UsizeModulus >= file_count_
    THEN [res |-> "UnexpectedEof",
          self |-> [self EXCEPT !.end_of_files = TRUE]]
    ELSE [res |-> "Ok", self |-> self]

increment(self, checks) ==
    LET eof == is_end_of_files(self, self.current_file_index,
                               file_count(self), checks)
    IN  IF eof.res # "Ok" THEN eof
        ELSE IF self.current_file_index + 1 >= UsizeModulus /\ checks
        THEN [res |-> "panic", self |-> eof.self]
        ELSE [res |-> "Ok",
              self |-> [eof.self EXCEPT !.current_file_index =
                                            (@ + 1) % UsizeModulus]]

skip(self, fsys, checks) ==
    LET inc == increment(self, checks)
    IN  IF inc.res # "Ok"
        THEN [res |-> inc.res, self |-> inc.self, fs |-> fsys]
        ELSE [res |-> "Ok",
              self |-> [inc.self EXCEPT !.undo_stack = Append(@, Skip_new)],
              fs |-> fsys]

\* delete_file removing the file without recording a command
delete_file_unrecorded(self, fsys, fault) ==
    LET file == get_current_file(self)
    IN  IF file = <<>> THEN [res |-> "Ok", self |-> self, fs |-> fsys]
        ELSE LET deleted == fs_delete_file(fsys, file[1], fault)
             IN  [res |-> deleted.res, self |-> self, fs |-> deleted.fs]

\* delete_file advancing the cursor as move_file and skip do
delete_file_advances(self, fsys, fault) ==
    LET file == get_current_file(self)
    IN  IF file = <<>> THEN [res |-> "Ok", self |-> self, fs |-> fsys]
        ELSE LET deleted == fs_delete_file(fsys, file[1], fault)
                 pushed == [self EXCEPT !.undo_stack = Append(@, Skip_new)]
                 inc == increment(pushed, FALSE)
             IN  IF deleted.res # "Ok"
                 THEN [res |-> deleted.res, self |-> self, fs |-> fsys]
                 ELSE [res |-> inc.res, self |-> inc.self, fs |-> deleted.fs]

delete_file(self, fsys, fault) ==
    LET file == get_current_file(self)
    IN  IF file = <<>> THEN [res |-> "Ok", self |-> self, fs |-> fsys]
        ELSE LET deleted == fs_delete_file(fsys, file[1], fault)
             IN  IF deleted.res # "Ok"
                 THEN [res |-> deleted.res, self |-> self, fs |-> fsys]
                 ELSE [res |-> "Ok",
                       self |-> [self EXCEPT !.undo_stack =
                                                 Append(@, Skip_new)],
                       fs |-> deleted.fs]

\* move_file without the look at the file list: no current file, nothing
\* to do
move_file_unguarded(self, fsys, to_folder, fault, checks) ==
    LET from_file == get_current_file(self)
    IN  IF from_file = <<>>
        THEN [res |-> "Ok", self |-> self, fs |-> fsys]
        ELSE
          LET destination == build_destination(to_folder, from_file[1])
              moved == fs_move_file(fsys, from_file[1], destination.path, fault)
              pushed == [self EXCEPT !.undo_stack =
                             Append(@, Move_new(from_file[1], destination.path))]
              inc == increment(pushed, checks)
          IN  IF destination.res # "Ok"
              THEN [res |-> destination.res, self |-> self, fs |-> fsys]
              ELSE IF moved.res # "Ok"
              THEN [res |-> moved.res, self |-> self, fs |-> fsys]
              ELSE [res |-> inc.res, self |-> inc.self, fs |-> moved.fs]

\* move_file advancing the cursor before it renames and records the move
move_file_advance_first(self, fsys, to_folder, fault, checks) ==
    LET from_file == get_current_file(self)
        inc == increment(self, checks)
    IN  IF self.files = <<>>
        THEN [res |-> "NotFound", self |-> self, fs |-> fsys]
        ELSE IF from_file = <<>>
        THEN [res |-> "Ok", self |-> self, fs |-> fsys]
        ELSE IF inc.res # "Ok"
        THEN [res |-> inc.res, self |-> inc.self, fs |-> fsys]
        ELSE
          LET destination == build_destination(to_folder, from_file[1])
              moved == fs_move_file(fsys, from_file[1], destination.path, fault)
          IN  IF destination.res # "Ok"
              THEN [res |-> destination.res, self |-> self, fs |-> fsys]
              ELSE IF moved.res # "Ok"
              THEN [res |-> moved.res, self |-> self, fs |-> fsys]
              ELSE [res |-> "Ok",
                    self |-> [inc.self EXCEPT !.undo_stack =
                        Append(@, Move_new(from_file[1], destination.path))],
                    fs |-> moved.fs]

move_file(self, fsys, to_folder, fault, checks) ==
    LET from_file == get_current_file(self)
    IN  IF self.files = <<>>
        THEN [res |-> "NotFound", self |-> self, fs |-> fsys]
        ELSE IF from_file = <<>>
        THEN [res |-> "Ok", self |-> self, fs |-> fsys]
        ELSE
          LET destination == build_destination(to_folder, from_file[1])
              moved == fs_move_file(fsys, from_file[1], destination.path, fault)
              pushed == [self EXCEPT !.undo_stack =
                             Append(@, Move_new(from_file[1], destination.path))]
              inc == increment(pushed, checks)
          IN  IF destination.res # "Ok"
              THEN [res |-> destination.res, self |-> self, fs |-> fsys]
              ELSE IF moved.res # "Ok"
              THEN [res |-> moved.res, self |-> self, fs |-> fsys]
              ELSE [res |-> inc.res, self |-> inc.self, fs |-> moved.fs]

\* undo retreating the cursor also when there is nothing to pop
undo_always_retreats(self, fsys, fault, checks) ==
    LET item == Last(self.undo_stack)
        result == IF self.undo_stack = <<>> THEN [res |-> "Ok", fs |-> fsys]
                  ELSE Controllable_undo(item, fsys, fault)
        popped == IF self.undo_stack = <<>> THEN self
                  ELSE [self EXCEPT !.undo_stack = Front(@),
                                    !.redo_stack = Append(@, item)]
    IN  IF self.end_of_files
        THEN [res |-> result.res,
              self |-> [popped EXCEPT !.end_of_files = FALSE],
              fs |-> result.fs]
        ELSE IF self.current_file_index = 0 /\ checks
        THEN [res |-> "panic", self |-> popped, fs |-> result.fs]
        ELSE [res |-> result.res,
              self |-> [popped EXCEPT !.current_file_index =
                            (@ + UsizeModulus - 1) % UsizeModulus],
              fs |-> result.fs]

undo(self, fsys, fault, checks) ==
    IF self.undo_stack = <<>>
    THEN [res |-> "Ok", self |-> self, fs |-> fsys]
    ELSE
      LET item == Last(self.undo_stack)
          result == Controllable_undo(item, fsys, fault)
          popped == [self EXCEPT !.undo_stack = Front(@),
                                 !.redo_stack = Append(@, item)]
      IN  IF self.end_of_files
          THEN [res |-> result.res,
                self |-> [popped EXCEPT !.end_of_files = FALSE],
                fs |-> result.fs]
          ELSE IF self.current_file_index = 0 /\ checks
          THEN [res |-> "panic", self |-> popped, fs |-> result.fs]
          ELSE [res |-> result.res,
                self |-> [popped EXCEPT !.current_file_index =
                              (@ + UsizeModulus - 1) % UsizeModulus],
                fs |-> result.fs]

\* redo returning the command's failure at once, the command dropped
redo_fails_early(self, fsys, fault, checks) ==
    IF self.redo_stack = <<>>
    THEN [res |-> "Ok", self |-> self, fs |-> fsys]
    ELSE
      LET item == Last(self.redo_stack)
          result == Controllable_redo(item, fsys, fault)
          dropped == [self EXCEPT !.redo_stack = Front(@)]
          popped == [dropped EXCEPT !.undo_stack = Append(@, item)]
          inc == increment(popped, checks)
      IN  IF result.res # "Ok"
          THEN [res |-> result.res, self |-> dropped, fs |-> result.fs]
          ELSE [res |-> inc.res, self |-> inc.self, fs |-> result.fs]

\* redo advancing the cursor before it hands the command to the undo stack
redo_advance_first(self, fsys, fault, checks) ==
    IF self.redo_stack = <<>>
    THEN [res |-> "Ok", self |-> self, fs |-> fsys]
    ELSE
      LET item == Last(self.redo_stack)
          result == Controllable_redo(item, fsys, fault)
          popped == [self EXCEPT !.redo_stack = Front(@)]
          inc == increment(popped, checks)
      IN  IF inc.res # "Ok"
          THEN [res |-> inc.res, self |-> inc.self, fs |-> result.fs]
          ELSE [res |-> result.res,
                self |-> [inc.self EXCEPT !.undo_stack = Append(@, item)],
                fs |-> result.fs]

redo(self, fsys, fault, checks) ==
    IF self.redo_stack = <<>>
    THEN [res |-> "Ok", self |-> self, fs |-> fsys]
    ELSE
      LET item == Last(self.redo_stack)
          result == Controllable_redo(item, fsys, fault)
          popped == [self EXCEPT !.redo_stack = Front(@),
                                 !.undo_stack = Append(@, item)]
          inc == increment(popped, checks)
      IN  IF inc.res # "Ok"
          THEN [res |-> inc.res, self |-> inc.self, fs |-> result.fs]
          ELSE [res |-> result.res, self |-> inc.self, fs |-> result.fs]

\* ---------------------------------------------------------------- history
\* results that come from the storage
StorageErrors == {"NotFound", "AlreadyExists", "PermissionDenied"}

NotFresh == [fresh |-> FALSE, nFwd |-> 0, nUndo |-> 0, fs0 |-> {}]

\* a successful load as the first call on a new engine starts a run
RunAfterLoad(r) ==
    IF r.res = "Ok" /\ last.op = "new"
    THEN [fresh |-> TRUE, nFwd |-> 0, nUndo |-> 0, fs0 |-> r.fs]
    ELSE NotFresh

\* a run goes on with move/skip calls, no more of them than there are files
RunAfterForward(r) ==
    IF run.fresh /\ run.nUndo = 0 /\ run.nFwd < Len(files)
       /\ r.res \in {"Ok", "UnexpectedEof"}
    THEN [run EXCEPT !.nFwd = @ + 1]
    ELSE NotFresh

\* and ends with as many undo calls
RunAfterUndo(r) ==
    IF run.fresh /\ run.nUndo < run.nFwd /\ r.res = "Ok"
    THEN [run EXCEPT !.nUndo = @ + 1]
    ELSE NotFresh

NoMark == [stage |-> "none"]

\* a move_file that returned success: the index before it, the stacks after
MarkAfterMove(r) ==
    IF r.res = "Ok" /\ r.self.undo_stack # undo_stack
    THEN [stage |-> "moved", index |-> current_file_index,
          undo |-> r.self.undo_stack, redo |-> r.self.redo_stack]
    ELSE NoMark

\* directly followed by an undo that returned success
MarkAfterUndo(r) ==
    IF mark.stage = "moved" /\ r.res = "Ok"
    THEN [mark EXCEPT !.stage = "undone"]
    ELSE NoMark

\* directly followed by a redo whose rename did not fail
MarkAfterRedo(r) ==
    IF mark.stage = "undone" /\ r.res \in {"Ok", "UnexpectedEof"}
    THEN [mark EXCEPT !.stage = "redone"]
    ELSE NoMark

\* a load that returned success ("loaded"), directly followed by a skip or
\* move_file that returned success ("acted"), directly followed by an undo
\* ("undone")
ReloadAfter(op, r) ==
    CASE op = "load_folders_and_files"
           -> IF r.res = "Ok" THEN "loaded" ELSE "none"
      [] op \in {"skip", "move_file"}
           -> IF reload = "loaded" /\ r.res = "Ok" THEN "acted" ELSE "none"
      [] op = "undo"
           -> IF reload = "acted" THEN "undone" ELSE "none"
      [] OTHER -> "none"

\* ----------------------------------------------------------------- system
Init ==
    /\ files = Backend_new.files
    /\ folders = Backend_new.folders
    /\ pwd = Backend_new.pwd
    /\ current_file_index = Backend_new.current_file_index
    /\ undo_stack = Backend_new.undo_stack
    /\ redo_stack = Backend_new.redo_stack
    /\ end_of_files = Backend_new.end_of_files
    /\ fs = InitialFiles
    /\ overflow_checks \in BOOLEAN
    /\ panicked = FALSE
    /\ last = [op |-> "new", arg |-> <<>>, res |-> "Ok"]
    /\ run = NotFresh
    /\ eof_cmds = {}
    /\ mark = NoMark
    /\ undone = <<>>
    /\ reload = "none"

\* the call op(arg) returned r
Commit(op, arg, r) ==
    /\ Len(r.self.undo_stack) + Len(r.self.redo_stack) <= MaxCmds
    /\ Len(r.self.folders) <= MaxFolders
    /\ files' = r.self.files
    /\ folders' = r.self.folders
    /\ pwd' = r.self.pwd
    /\ current_file_index' = r.self.current_file_index
    /\ undo_stack' = r.self.undo_stack
    /\ redo_stack' = r.self.redo_stack
    /\ end_of_files' = r.self.end_of_files
    /\ fs' = r.fs
    /\ panicked' = (r.res = "panic")
    /\ last' = [op |-> op, arg |-> arg, res |-> r.res]
    /\ undone' = IF op = "undo" THEN undo_stack ELSE <<>>
    /\ reload' = ReloadAfter(op, r)
    /\ UNCHANGED overflow_checks

LoadFoldersAndFiles ==
    /\ ~panicked
    /\ \E directory \in DirStrings, fault \in BOOLEAN :
         LET r == load_folders_and_files(Self, fs, directory, fault)
         IN  /\ Commit("load_folders_and_files", <<>>, r)
             /\ run' = RunAfterLoad(r)
             /\ mark' = NoMark
             /\ eof_cmds' = IF r.res = "Ok" THEN {} ELSE eof_cmds

LoadExternalFolders ==
    /\ ~panicked
    /\ \E directory \in DirStrings, fault \in BOOLEAN :
         LET r == load_external_folders(Self, fs, directory, fault)
         IN  /\ Commit("load_external_folders", <<>>, r)
             /\ run' = NotFresh
             /\ mark' = NoMark
             /\ UNCHANGED eof_cmds

AddFolder ==
    /\ ~panicked
    /\ \E directory \in DirStrings :
         LET r == add_folder(Self, fs, directory)
         IN  /\ Commit("add_folder", directory, r)
             /\ run' = NotFresh
             /\ mark' = NoMark
             /\ UNCHANGED eof_cmds

ClearFolders ==
    /\ ~panicked
    /\ Commit("clear_folders", <<>>, clear_folders(Self, fs))
    /\ run' = NotFresh
    /\ mark' = NoMark
    /\ UNCHANGED eof_cmds

DeleteFileWith(faults) ==
    /\ ~panicked
    /\ \E fault \in faults :
         LET r == delete_file(Self, fs, fault)
         IN  /\ Commit("delete_file", <<>>, r)
             /\ run' = NotFresh
             /\ mark' = NoMark
             /\ UNCHANGED eof_cmds

MoveFileWith(faults) ==
    /\ ~panicked
    /\ \E to_folder \in MoveTargets, fault \in faults :
         LET r == move_file(Self, fs, to_folder, fault, overflow_checks)
         IN  /\ Commit("move_file", to_folder, r)
             /\ run' = RunAfterForward(r)
             /\ mark' = MarkAfterMove(r)
             /\ eof_cmds' =
                  IF r.res = "UnexpectedEof"
                  THEN eof_cmds \cup {Len(r.self.undo_stack)}
                  ELSE eof_cmds

SkipFile ==
    /\ ~panicked
    /\ LET r == skip(Self, fs, overflow_checks)
       IN  /\ Commit("skip", <<>>, r)
           /\ run' = RunAfterForward(r)
           /\ mark' = NoMark
           /\ UNCHANGED eof_cmds

UndoWith(faults) ==
    /\ ~panicked
    /\ \E fault \in faults :
         LET r == undo(Self, fs, fault, overflow_checks)
         IN  /\ Commit("undo", <<>>, r)
             /\ run' = RunAfterUndo(r)
             /\ mark' = MarkAfterUndo(r)
             /\ eof_cmds' = eof_cmds \ {Len(undo_stack)}

RedoWith(faults) ==
    /\ ~panicked
    /\ \E fault \in faults :
         LET r == redo(Self, fs, fault, overflow_checks)
         IN  /\ Commit("redo", <<>>, r)
             /\ run' = NotFresh
             /\ mark' = MarkAfterRedo(r)
             /\ eof_cmds' =
                  IF r.res = "UnexpectedEof"
                  THEN eof_cmds \cup {Len(r.self.undo_stack)}
                  ELSE eof_cmds

\* the calls against a storage that may refuse a rename or a removal
DeleteFile == DeleteFileWith(BOOLEAN)

MoveFile == MoveFileWith(BOOLEAN)

Undo == UndoWith(BOOLEAN)

Redo == RedoWith(BOOLEAN)

\* the calls against a storage whose rename and removal never raise an I/O
\* error
ReliableDeleteFile == DeleteFileWith({FALSE})

ReliableMoveFile == MoveFileWith({FALSE})

ReliableUndo == UndoWith({FALSE})

ReliableRedo == RedoWith({FALSE})

Next ==
    \/ LoadFoldersAndFiles
    \/ LoadExternalFolders
    \/ AddFolder
    \/ ClearFolders
    \/ DeleteFile
    \/ MoveFile
    \/ SkipFile
    \/ Undo
    \/ Redo

Spec == Init /\ [][Next]_vars

ReliableNext ==
    \/ LoadFoldersAndFiles
    \/ LoadExternalFolders
    \/ AddFolder
    \/ ClearFolders
    \/ ReliableDeleteFile
    \/ ReliableMoveFile
    \/ SkipFile
    \/ ReliableUndo
    \/ ReliableRedo

\* the program with a storage whose rename and removal never raise an I/O
\* error
ReliableSpec == Init /\ [][ReliableNext]_vars

TypeOK ==
    /\ current_file_index \in 0 .. UsizeModulus - 1
    /\ end_of_files \in BOOLEAN
    /\ Len(undo_stack) + Len(redo_stack) <= MaxCmds

\* ----------------------------------------------------------------- claims
\* the file the cursor is on and where move_file(to_folder) takes it
CurrentFile == files[current_file_index + 1]

DestinationOf(to_folder) == Append(to_folder, FileName(CurrentFile))

EngineUnchanged ==
    UNCHANGED <<files, folders, pwd, current_file_index, undo_stack,
                redo_stack>>

\* C1: a move_file, skip or delete_file that returns success leaves the
\* redo stack empty, and a redo that directly follows a successful skip
\* renames nothing and leaves the cursor and both stacks as the skip left
\* them.
C1_ActionClearsRedo ==
    [][ /\ (/\ last'.op \in {"move_file", "skip", "delete_file"}
            /\ last'.res = "Ok")
           => redo_stack' = <<>>
        /\ (/\ last.op = "skip" /\ last.res = "Ok"
            /\ last'.op = "redo")
           => /\ fs' = fs
              /\ current_file_index' = current_file_index
              /\ undo_stack' = undo_stack
              /\ redo_stack' = redo_stack ]_vars

\* C2: after a load on a new engine, n <= file count move_file/skip calls
\* with a storage that never fails, and then n undo calls, the cursor is 0,
\* the undo stack is empty and every file is where it was at the load.
C2_UndoAllRestores ==
    (run.fresh /\ run.nUndo = run.nFwd)
        => /\ current_file_index = 0
           /\ undo_stack = <<>>
           /\ fs = run.fs0

\* C3: the cursor is always within 0 .. len(files).
C3_CursorInRange ==
    /\ current_file_index >= 0
    /\ current_file_index <= Len(files)

\* C4: an undo on a non-empty undo stack moves the popped command to the
\* redo stack; it leaves the cursor alone and clears the end-of-files flag
\* exactly when the popped command is one whose advance hit the end of
\* files, and otherwise decrements the cursor by one.
C4_UndoCursor ==
    [][ (last'.op = "undo" /\ undo_stack # <<>>)
           => /\ undo_stack' = Front(undo_stack)
              /\ redo_stack' = Append(redo_stack, Last(undo_stack))
              /\ IF Len(undo_stack) \in eof_cmds
                 THEN /\ current_file_index' = current_file_index
                      /\ end_of_files' = FALSE
                 ELSE current_file_index' = current_file_index - 1 ]_vars

\* C5: a call that returns a storage failure leaves the file list, the
\* folder list, the cursor and both stacks as they were.
C5_FailureLeavesState ==
    [][ last'.res \in StorageErrors => EngineUnchanged ]_vars

\* C6: skip on the last index fails with end-of-files, does not advance the
\* cursor and pushes nothing; skip with cursor + 1 < len(files) succeeds,
\* advances the cursor by one and pushes one Skip.
C6_SkipBoundary ==
    [][ last'.op = "skip"
           => /\ (files # <<>> /\ current_file_index = Len(files) - 1)
                    => /\ last'.res = "UnexpectedEof"
                       /\ current_file_index' = current_file_index
                       /\ undo_stack' = undo_stack
              /\ (current_file_index + 1 < Len(files))
                    => /\ last'.res = "Ok"
                       /\ current_file_index' = current_file_index + 1
                       /\ undo_stack' = Append(undo_stack, Skip_new) ]_vars

\* a skip failed on the last index after an earlier skip had advanced
C6_Witness ==
    /\ last.op = "skip" /\ last.res = "UnexpectedEof"
    /\ files # <<>> /\ current_file_index = Len(files) - 1
    /\ undo_stack # <<>> /\ Last(undo_stack) = Skip_new

C8_EmptyStackNoOp ==
    [][ (\/ last'.op = "undo" /\ undo_stack = <<>>
         \/ last'.op = "redo" /\ redo_stack = <<>>)
           => /\ last'.res = "Ok"
              /\ EngineUnchanged
              /\ UNCHANGED <<end_of_files, fs>> ]_vars

\* undo has just returned with both stacks empty: it found nothing to pop
C8_Witness ==
    /\ last.op = "undo" /\ last.res = "Ok"
    /\ undo_stack = <<>> /\ redo_stack = <<>>
    /\ files # <<>>

\* C9: a successful move_file off the last file renames the current file
\* into the folder, pushes one Move and advances the cursor by one; an undo
\* that directly follows puts the file back, decrements the cursor by one
\* and moves the Move from the undo stack to the redo stack.
C9_MoveThenUndo ==
    [][ /\ (/\ last'.op = "move_file" /\ last'.res = "Ok"
            /\ current_file_index + 1 < Len(files))
           => /\ fs' = (fs \ {CurrentFile}) \cup {DestinationOf(last'.arg)}
              /\ undo_stack' =
                   Append(undo_stack,
                          Move_new(CurrentFile, DestinationOf(last'.arg)))
              /\ current_file_index' = current_file_index + 1
        /\ (/\ mark.stage = "moved"
            /\ last'.op = "undo" /\ last'.res = "Ok")
           => /\ Last(undo_stack).current_file_location \in fs'
              /\ Last(undo_stack).previous_file_location \notin fs'
              /\ current_file_index' = current_file_index - 1
              /\ undo_stack' = Front(undo_stack)
              /\ redo_stack' = Append(redo_stack, Last(undo_stack)) ]_vars

\* C10: move_file on the last file whose rename succeeds returns
\* end-of-files with the file renamed, one Move pushed and the cursor where
\* it was.
C10_MoveAtEnd ==
    [][ (/\ last'.op = "move_file"
         /\ files # <<>> /\ current_file_index = Len(files) - 1
         /\ last'.res \notin StorageErrors)
           => /\ last'.res = "UnexpectedEof"
              /\ fs' = (fs \ {CurrentFile}) \cup {DestinationOf(last'.arg)}
              /\ CurrentFile \notin fs'
              /\ undo_stack' =
                   Append(undo_stack,
                          Move_new(CurrentFile, DestinationOf(last'.arg)))
              /\ current_file_index' = current_file_index ]_vars

\* a move_file on the last file has returned end-of-files
C10_Witness ==
    /\ last.op = "move_file" /\ last.res = "UnexpectedEof"
    /\ files # <<>> /\ current_file_index = Len(files) - 1
    /\ undo_stack # <<>> /\ Last(undo_stack).kind = "Move"
    /\ Last(undo_stack).previous_file_location \in fs
    /\ Last(undo_stack).current_file_location \notin fs

\* C11: move_file into a folder that already holds a file of the current
\* file's name fails with AlreadyExists, renames nothing and leaves the
\* cursor and both stacks as they were.
C11_MoveCollision ==
    [][ (/\ last'.op = "move_file"
         /\ current_file_index < Len(files)
         /\ DestinationOf(last'.arg) \in fs)
           => /\ last'.res = "AlreadyExists"
              /\ fs' = fs
              /\ current_file_index' = current_file_index
              /\ undo_stack' = undo_stack
              /\ redo_stack' = redo_stack ]_vars

\* a move_file has failed on another file of the same name in the folder
C11_Witness ==
    /\ last.op = "move_file" /\ last.res = "AlreadyExists"
    /\ current_file_index < Len(files)
    /\ CurrentFile \in fs
    /\ DestinationOf(last.arg) \in fs
    /\ DestinationOf(last.arg) # CurrentFile

\* C12: a delete_file that removes the current file pushes one Skip and
\* leaves the cursor, the file list and the folder list as they were; a
\* delete_file whose removal fails returns the failure and pushes nothing.
C12_DeleteFrame ==
    [][ (last'.op = "delete_file" /\ current_file_index < Len(files))
           => /\ files' = files
              /\ folders' = folders
              /\ current_file_index' = current_file_index
              /\ redo_stack' = redo_stack
              /\ IF last'.res = "Ok"
                 THEN /\ CurrentFile \in fs
                      /\ fs' = fs \ {CurrentFile}
                      /\ undo_stack' = Append(undo_stack, Skip_new)
                 ELSE /\ last'.res \in StorageErrors
                      /\ fs' = fs
                      /\ undo_stack' = undo_stack ]_vars

\* a delete_file has removed the current file, which is still the current
\* entry of the file list
C12_Witness ==
    /\ last.op = "delete_file" /\ last.res = "Ok"
    /\ current_file_index < Len(files)
    /\ CurrentFile \notin fs
    /\ undo_stack # <<>> /\ Last(undo_stack) = Skip_new

\* the sequence lists exactly the entries of S that lie directly in the
\* directory, each once, in ascending path order
IsListingOf(listed, S, directory) ==
    /\ {listed[i] : i \in 1 .. Len(listed)} =
         {p \in S : p # <<>> /\ Front(p) = directory}
    /\ \A i, j \in 1 .. Len(listed) : i < j => PathLess(listed[i], listed[j])

\* C13: a load_folders_and_files that returns success leaves the file and
\* folder lists equal to the storage's sorted listing of the directory it
\* was given (kept in pwd), the cursor at 0 and both stacks empty.
C13_LoadResets ==
    [][ (last'.op = "load_folders_and_files" /\ last'.res = "Ok")
           => /\ IsListingOf(files', fs, PathFrom(Trim(pwd')))
              /\ IsListingOf(folders', Directories, PathFrom(Trim(pwd')))
              /\ pwd' \in DirStrings
              /\ fs' = fs
              /\ current_file_index' = 0
              /\ undo_stack' = <<>>
              /\ redo_stack' = <<>> ]_vars

\* a load has just succeeded on a storage that earlier calls have changed,
\* in an engine that had hit the end of files
C13_Witness ==
    /\ last.op = "load_folders_and_files" /\ last.res = "Ok"
    /\ fs # InitialFiles
    /\ Len(files) = 1
    /\ end_of_files

\* C14: load_external_folders, add_folder and clear_folders leave the file
\* list, the cursor, both stacks, the end-of-files flag and the storage as
\* they were, whether they succeed or fail.
C14_FolderOpsFrame ==
    [][ last'.op \in {"load_external_folders", "add_folder", "clear_folders"}
           => UNCHANGED <<files, pwd, current_file_index, undo_stack,
                          redo_stack, end_of_files, fs>> ]_vars

\* load_external_folders has succeeded in an engine with a moved cursor,
\* a command on each stack and a storage that differs from the file list
C14_Witness ==
    /\ last.op = "load_external_folders" /\ last.res = "Ok"
    /\ folders # <<>>
    /\ current_file_index > 0
    /\ undo_stack # <<>> /\ redo_stack # <<>>
    /\ \E i \in 1 .. Len(files) : files[i] \notin fs

\* C15: add_folder on a path that does not exist fails with NotFound and
\* leaves the folder list as it was; on a path that exists it appends that
\* path to the folder list.
C15_AddFolder ==
    [][ last'.op = "add_folder"
           => LET path == PathFrom(Trim(last'.arg))
              IN  IF path \in Directories \/ path \in fs
                  THEN /\ last'.res = "Ok"
                       /\ folders' = Append(folders, path)
                  ELSE /\ last'.res = "NotFound"
                       /\ folders' = folders ]_vars

\* add_folder has appended a second folder behind the one already there
C15_Witness ==
    /\ last.op = "add_folder" /\ last.res = "Ok"
    /\ Len(folders) = 2
    /\ folders[2] = PathFrom(Trim(last.arg))
    /\ folders[1] # folders[2]

\* the command undo pops and the command redo pops
UndoItem == Last(undo_stack)

RedoItem == Last(redo_stack)

\* the storage after the rename of from_file to to_file
Renamed(from_file, to_file) == (fs \ {from_file}) \cup {to_file}

\* C16: an undo or redo whose popped Move fails to rename (the storage is
\* left as it was) returns that storage failure to the caller; AlreadyExists
\* when the target of the rename exists.
C16_RenameFailurePropagates ==
    [][ /\ (/\ last'.op = "undo" /\ undo_stack # <<>>
            /\ UndoItem.kind = "Move" /\ fs' = fs)
           => /\ last'.res \in StorageErrors
              /\ UndoItem.current_file_location \in fs
                    => last'.res = "AlreadyExists"
        /\ (/\ last'.op = "redo" /\ redo_stack # <<>>
            /\ RedoItem.kind = "Move" /\ fs' = fs)
           => /\ last'.res \in StorageErrors
              /\ RedoItem.previous_file_location \in fs
                    => last'.res = "AlreadyExists" ]_vars

\* C17: a redo on a non-empty redo stack moves the top command of the redo
\* stack to the top of the undo stack and re-applies it; with
\* cursor + 1 < len(files) it advances the cursor by one, on the last file
\* it returns end-of-files and leaves the cursor where it was.
C17_Redo ==
    [][ (last'.op = "redo" /\ redo_stack # <<>>)
           => /\ redo_stack' = Front(redo_stack)
              /\ undo_stack' = Append(undo_stack, RedoItem)
              /\ files' = files
              /\ IF RedoItem.kind = "Move"
                 THEN \/ fs' = Renamed(RedoItem.current_file_location,
                                       RedoItem.previous_file_location)
                      \/ fs' = fs /\ last'.res # "Ok"
                 ELSE fs' = fs
              /\ (current_file_index + 1 < Len(files))
                    => /\ current_file_index' = current_file_index + 1
                       /\ last'.res # "UnexpectedEof"
              /\ (files # <<>> /\ current_file_index = Len(files) - 1)
                    => /\ current_file_index' = current_file_index
                       /\ last'.res = "UnexpectedEof" ]_vars

\* a redo on the last file has returned end-of-files and the Move it
\* re-applied is on the undo stack, its file at the destination
C17_Witness ==
    /\ last.op = "redo" /\ last.res = "UnexpectedEof"
    /\ files # <<>> /\ current_file_index = Len(files) - 1
    /\ undo_stack # <<>> /\ UndoItem.kind = "Move"
    /\ UndoItem.previous_file_location \in fs
    /\ UndoItem.current_file_location \notin fs

\* C18: move_file records the Move of the current file P to the destination
\* D; an undo that pops it renames D to P, a redo that pops it renames P to
\* D (unless the storage refuses with an I/O error), and popping a Skip
\* leaves the storage alone.
C18_MoveDirections ==
    [][ /\ (/\ last'.op = "move_file"
            /\ undo_stack' # undo_stack)
           => /\ undo_stack' =
                   Append(undo_stack,
                          Move_new(CurrentFile, DestinationOf(last'.arg)))
              /\ fs' = Renamed(CurrentFile, DestinationOf(last'.arg))
              /\ CurrentFile \in fs
        /\ (/\ last'.op = "undo" /\ undo_stack # <<>>)
           => IF UndoItem.kind = "Skip" THEN fs' = fs
              ELSE (/\ UndoItem.previous_file_location \in fs
                    /\ UndoItem.current_file_location \notin fs)
                      => \/ fs' = Renamed(UndoItem.previous_file_location,
                                          UndoItem.current_file_location)
                         \/ /\ fs' = fs
                            /\ last'.res \in {"PermissionDenied", "panic"}
        /\ (/\ last'.op = "redo" /\ redo_stack # <<>>)
           => IF RedoItem.kind = "Skip" THEN fs' = fs
              ELSE (/\ RedoItem.current_file_location \in fs
                    /\ RedoItem.previous_file_location \notin fs)
                      => \/ fs' = Renamed(RedoItem.current_file_location,
                                          RedoItem.previous_file_location)
                         \/ /\ fs' = fs
                            /\ last'.res \in {"PermissionDenied",
                                              "UnexpectedEof", "panic"} ]_vars

\* a move has been undone and redone with success: the file is at its
\* destination again
C18_Witness ==
    /\ mark.stage = "redone"
    /\ last.op = "redo" /\ last.res = "Ok"
    /\ UndoItem.kind = "Move"
    /\ UndoItem.previous_file_location \in fs
    /\ UndoItem.current_file_location \notin fs

\* C19: undo and redo each move the top command of one stack to the top of
\* the other, so the two stacks together hold the same commands before and
\* after, whatever the call returns; a redo that directly follows an undo
\* that popped a command leaves the undo stack as it was before that undo.
C19_StackTransfer ==
    [][ last'.op \in {"undo", "redo"}
           => /\ Len(undo_stack') + Len(redo_stack') =
                   Len(undo_stack) + Len(redo_stack)
              /\ (last'.op = "undo" /\ undo_stack # <<>>)
                    => /\ undo_stack' = Front(undo_stack)
                       /\ redo_stack' = Append(redo_stack, UndoItem)
              /\ (last'.op = "redo" /\ redo_stack # <<>>)
                    => /\ redo_stack' = Front(redo_stack)
                       /\ undo_stack' = Append(undo_stack, RedoItem)
              /\ (last'.op = "redo" /\ undone # <<>>)
                    => undo_stack' = undone ]_vars

\* a redo that followed an undo has returned an error and the undo stack
\* is the one from before the undo
C19_Witness ==
    /\ mark.stage = "redone"
    /\ last.op = "redo" /\ last.res = "UnexpectedEof"
    /\ undo_stack = mark.undo
    /\ redo_stack = mark.redo

\* move_file, skip and delete_file
RecordingOps == {"move_file", "skip", "delete_file"}

\* C20 as stated: a move_file, skip or delete_file that returns success
\* makes the undo stack one longer, and one that pushes nothing returns a
\* failure.
C20_SuccessPushesOne ==
    [][ last'.op \in RecordingOps
           => /\ last'.res = "Ok"
                    => Len(undo_stack') = Len(undo_stack) + 1
              /\ undo_stack' = undo_stack => last'.res # "Ok" ]_vars

\* C20 as amended: the same, except that delete_file and move_file return
\* success and push nothing when there is no current file (delete_file on
\* an empty list or with the cursor past the list, move_file with the
\* cursor past a non-empty list).
C20_SuccessPushesOneIfCurrent ==
    [][ last'.op \in RecordingOps
           => LET no_current == /\ last'.op # "skip"
                                /\ current_file_index >= Len(files)
              IN  /\ (last'.res = "Ok" /\ ~no_current)
                        => Len(undo_stack') = Len(undo_stack) + 1
                  /\ undo_stack' = undo_stack
                        => (last'.res # "Ok" \/ no_current)
                  /\ no_current
                        => /\ undo_stack' = undo_stack
                           /\ last'.res = IF last'.op = "move_file"
                                             /\ files = <<>>
                                          THEN "NotFound" ELSE "Ok" ]_vars

\* a delete_file has removed the current file and returned success behind
\* another recorded command
C20_Witness ==
    /\ last.op = "delete_file" /\ last.res = "Ok"
    /\ Len(undo_stack) = 2
    /\ current_file_index < Len(files)
    /\ CurrentFile \notin fs

\* C21: move_file on an empty file list returns NotFound whatever the folder
\* and whatever the storage would answer (it is not asked), and leaves the
\* storage, the cursor, both stacks and the end-of-files flag as they were.
C21_MoveOnEmptyList ==
    /\ [](files = <<>>
            => \A to_folder \in MoveTargets, fault \in BOOLEAN :
                 move_file(Self, fs, to_folder, fault, overflow_checks) =
                     [res |-> "NotFound", self |-> Self, fs |-> fs])
    /\ [][ (last'.op = "move_file" /\ files = <<>>)
              => /\ last'.res = "NotFound"
                 /\ EngineUnchanged
                 /\ UNCHANGED <<end_of_files, fs>> ]_vars

\* move_file has failed on the empty list of a directory that earlier calls
\* emptied, in an engine whose end-of-files flag is set
C21_Witness ==
    /\ last.op = "move_file" /\ last.res = "NotFound"
    /\ files = <<>>
    /\ pwd # <<>>
    /\ end_of_files

\* C22: get_current_file returns the entry of the file list at the cursor
\* when the cursor is below the length of the list, and none exactly when
\* the cursor is at or past the length; it is a value of the engine's state
\* and changes nothing, so a delete_file that finds none is a no-op.
C22_CurrentFile ==
    /\ [](/\ current_file_index < Len(files)
              => get_current_file(Self) = <<files[current_file_index + 1]>>
          /\ current_file_index >= Len(files)
              <=> get_current_file(Self) = <<>>)
    /\ [][ (last'.op = "delete_file" /\ get_current_file(Self) = <<>>)
              => /\ last'.res = "Ok"
                 /\ UNCHANGED <<engine, fs>> ]_vars

\* a delete_file has found no current file in a non-empty list: the cursor
\* is past the list
C22_Witness ==
    /\ last.op = "delete_file" /\ last.res = "Ok"
    /\ files # <<>>
    /\ current_file_index >= Len(files)
    /\ get_current_file(Self) = <<>>

\* C23: after a load_folders_and_files that returned success, whatever the
\* calls before it, one skip or move_file that returns success and then an
\* undo leave the cursor at 0 and the undo stack empty, as they do on a new
\* engine.
C23_LoadResetsEndOfFiles ==
    reload = "undone" => /\ current_file_index = 0
                         /\ undo_stack = <<>>

\* C24: an undo that directly follows a delete_file that removed the
\* current file (and so pushed a Skip without advancing) leaves the cursor
\* where it was, at every cursor position, 0 included.
C24_DeleteThenUndo ==
    [][ (/\ last.op = "delete_file" /\ last.res = "Ok"
         /\ current_file_index < Len(files)
         /\ last'.op = "undo")
           => /\ last'.res = "Ok"
              /\ current_file_index' = current_file_index ]_vars

\* the Move commands a stack holds
MovesOf(stack) ==
    {stack[i] : i \in {j \in 1 .. Len(stack) : stack[j].kind = "Move"}}

\* C25: with a storage whose rename and removal never fail, every Move on
\* the undo stack has its file at the destination (and not at the original
\* path) and every Move on the redo stack has its file at the original path
\* (and not at the destination).
C25_MovesLocated ==
    /\ \A item \in MovesOf(undo_stack) :
         /\ item.previous_file_location \in fs
         /\ item.current_file_location \notin fs
    /\ \A item \in MovesOf(redo_stack) :
         /\ item.current_file_location \in fs
         /\ item.previous_file_location \notin fs

\* the call that last' records went through increment: every skip, a
\* move_file that recorded its Move, a redo that popped a command
Advances ==
    \/ last'.op = "skip"
    \/ last'.op = "move_file" /\ undo_stack' # undo_stack
    \/ last'.op = "redo" /\ redo_stack # <<>>

\* C26: an advance of the cursor (by skip, move_file or redo) increments
\* the cursor when cursor + 1 < len(files) and otherwise returns
\* end-of-files and leaves the cursor as it is; so no advance makes the
\* cursor equal to len(files), and skip on an empty list fails with
\* end-of-files.
C26_Advance ==
    [][ Advances
           => /\ IF current_file_index + 1 < Len(files)
                 THEN /\ current_file_index' = current_file_index + 1
                      /\ last'.res # "UnexpectedEof"
                 ELSE /\ current_file_index' = current_file_index
                      /\ last'.res = "UnexpectedEof"
                      /\ end_of_files'
              /\ current_file_index' # current_file_index
                    => current_file_index' # Len(files')
              /\ (last'.op = "skip" /\ files = <<>>)
                    => last'.res = "UnexpectedEof" ]_vars

====
